---- MODULE Spec2Model ----
(***************************************************************************)
(* atuin-common/src/utils.rs: directory resolution (home_dir, config_dir,  *)
(* data_dir) over the process environment, and git-repository ancestor     *)
(* detection (has_git_dir, in_git_repo) over the filesystem.               *)
(*                                                                         *)
(* Strings are sequences of tokens.  The token "/" is the path separator,  *)
(* the token BadByte is a byte that is no valid UTF-8, every other token   *)
(* is a run of ordinary characters (a name or a part of one).  The model   *)
(* is of the non-Windows build (cfg(not(target_os = "windows"))).          *)
(***************************************************************************)
EXTENDS Naturals, Sequences, FiniteSets

VARIABLES env, fs, op, ret, fresh, memo, path, gitdir, pc, found

vars == <<env, fs, op, ret, fresh, memo, path, gitdir, pc, found>>
dirVars == <<env, op, ret, fresh, memo>>
gitVars == <<path, gitdir, pc, found>>

(***************************************************************************)
(* Bounds.                                                                 *)
(***************************************************************************)
\* longest environment value, in tokens
MaxLen == 1
\* longest environment value of the call-sequence specification
SeqLen == 0
\* most directories on disk while the directory resolver runs
MaxDirs == 1
\* most ".git" entries on disk while in_git_repo runs
MaxGit == 2
\* longest argument of in_git_repo, in tokens
MaxPath == 4

SEP == "/"
BadByte == "0xFF"
Alphabet == {SEP, "home", BadByte}
SeqAlphabet == {SEP}
GitAlphabet == {SEP, "a"}
\* the working directory relative paths are resolved against
Cwd == <<<<"w">>>>

RECURSIVE SeqsOfLen(_, _)
SeqsOfLen(n, A) ==
    IF n = 0 THEN {<<>>}
    ELSE {Append(s, a) : s \in SeqsOfLen(n - 1, A), a \in A}

StringsUpTo(n, A) == UNION {SeqsOfLen(k, A) : k \in 0..n}

Values == StringsUpTo(MaxLen, Alphabet)
SeqValues == StringsUpTo(SeqLen, SeqAlphabet)
GitPaths == StringsUpTo(MaxPath, GitAlphabet)

(***************************************************************************)
(* std::path on Unix, as far as the program uses it.                       *)
(***************************************************************************)
\* String validity: std::env::var yields Err(NotUnicode) for a value that
\* is no valid Unicode
IsUnicode(s) == \A i \in 1..Len(s) : s[i] # BadByte

\* Path::has_root / is_absolute
IsAbsolute(s) == Len(s) > 0 /\ s[1] = SEP

\* PathBuf::push: an absolute argument replaces the buffer; otherwise a
\* separator is added when the buffer is non-empty and does not end in one
Push(buf, p) ==
    IF IsAbsolute(p) THEN p
    ELSE IF Len(buf) > 0 /\ buf[Len(buf)] # SEP THEN buf \o <<SEP>> \o p
    ELSE buf \o p

\* Path::join
Join(buf, p) == Push(buf, p)

\* Path::components, without the root: the non-empty runs between separators
RECURSIVE Components(_)
Components(s) ==
    IF Len(s) = 0 THEN <<>>
    ELSE LET n == Len(s)
             init == SubSeq(s, 1, n - 1)
             cs == Components(init)
         IN  IF s[n] = SEP THEN cs
             ELSE IF n > 1 /\ s[n - 1] # SEP
                  THEN [cs EXCEPT ![Len(cs)] = Append(@, s[n])]
                  ELSE Append(cs, <<s[n]>>)

\* what the operating system resolves a path to: the components from the
\* root, a relative path taken from the working directory
Resolve(s) == IF IsAbsolute(s) THEN Components(s) ELSE Cwd \o Components(s)

\* Path::exists
Exists(s) == Resolve(s) \in fs

\* the string cut back to its root (if any) and its body without trailing
\* separators, as Components::as_path leaves it
RECURSIVE TrimRight(_)
TrimRight(s) ==
    IF Len(s) > 1 /\ s[Len(s)] = SEP THEN TrimRight(SubSeq(s, 1, Len(s) - 1))
    ELSE s

RECURSIVE DropLastName(_)
DropLastName(s) ==
    IF Len(s) > 0 /\ s[Len(s)] # SEP THEN DropLastName(SubSeq(s, 1, Len(s) - 1))
    ELSE s

\* Path::parent: None for the root and for the empty path
HasParent(s) == Components(s) # <<>>

Parent(s) == TrimRight(DropLastName(TrimRight(s)))

\* PathBuf::pop: truncates to the parent; nothing happens without one
Pop(s) == IF HasParent(s) THEN Parent(s) ELSE s

(***************************************************************************)
(* The process environment and the outcomes of a call.                     *)
(***************************************************************************)
VarNames == {"HOME", "XDG_CONFIG_HOME", "XDG_DATA_HOME"}

Unset == [set |-> FALSE, val |-> <<>>]
SetTo(v) == [set |-> TRUE, val |-> v]

Ok(p) == [kind |-> "ok", path |-> p]
Err == [kind |-> "err", path |-> <<>>]
Panic == [kind |-> "panic", path |-> <<>>]
NoResult == [kind |-> "none", path |-> <<>>]

\* std::env::var: Err when the variable is not present or not valid Unicode
EnvVar(e, k) ==
    IF e[k].set /\ IsUnicode(e[k].val) THEN Ok(e[k].val) ELSE Err

\* home_dir as it would be with a default in place of the panic
home_dir_default(e) ==
    LET home == EnvVar(e, "HOME")
    IN  IF home.kind = "ok" THEN Ok(home.path) ELSE Ok(<<>>)

\* Result::expect followed by PathBuf::from
home_dir(e) ==
    LET home == EnvVar(e, "HOME")
    IN  IF home.kind = "ok" THEN Ok(home.path) ELSE Panic

\* a panic in the closure unwinds through the caller
JoinOutcome(r, p) == IF r.kind = "ok" THEN Ok(Join(r.path, p)) ELSE r

config_dir(e) ==
    LET x == EnvVar(e, "XDG_CONFIG_HOME")
        base == IF x.kind = "ok" THEN Ok(x.path)
                ELSE JoinOutcome(home_dir(e), <<".config">>)
    IN  JoinOutcome(base, <<"atuin">>)

data_dir(e) ==
    LET x == EnvVar(e, "XDG_DATA_HOME")
        base == IF x.kind = "ok" THEN Ok(x.path)
                ELSE JoinOutcome(JoinOutcome(home_dir(e), <<".local">>), <<"share">>)
    IN  JoinOutcome(base, <<"atuin">>)

(***************************************************************************)
(* Steps of the surroundings: the environment and the filesystem change.   *)
(***************************************************************************)
\* env::set_var
SetVar(k, v) ==
    /\ env' = [env EXCEPT ![k] = SetTo(v)]
    /\ fresh' = FALSE
    /\ UNCHANGED <<fs, op, ret, memo, gitVars>>

\* env::remove_var
RemoveVar(k) ==
    /\ env' = [env EXCEPT ![k] = Unset]
    /\ fresh' = FALSE
    /\ UNCHANGED <<fs, op, ret, memo, gitVars>>

CreateDir(p) ==
    /\ Resolve(p) \notin fs
    /\ fs' = fs \cup {Resolve(p)}
    /\ fresh' = FALSE
    /\ UNCHANGED <<env, op, ret, memo, gitVars>>

RemoveDir(d) ==
    /\ d \in fs
    /\ fs' = fs \ {d}
    /\ fresh' = FALSE
    /\ UNCHANGED <<env, op, ret, memo, gitVars>>

(***************************************************************************)
(* Calls.  op and ret hold the last call and its outcome; fresh says that  *)
(* nothing has changed since that call.                                    *)
(***************************************************************************)
CallHomeDir ==
    /\ op' = "home_dir"
    /\ ret' = home_dir(env)
    /\ fresh' = TRUE
    /\ UNCHANGED <<env, fs, memo, gitVars>>

\* config_dir as it would be if it kept its first result
CallConfigDirCached ==
    /\ op' = "config_dir"
    /\ ret' = IF op = "config_dir" THEN ret ELSE config_dir(env)
    /\ fresh' = TRUE
    /\ UNCHANGED <<env, fs, memo, gitVars>>

\* config_dir as it would be if it created the directory it returns
CallConfigDirCreating ==
    /\ op' = "config_dir"
    /\ ret' = config_dir(env)
    /\ fresh' = TRUE
    /\ fs' = IF ret'.kind = "ok" THEN fs \cup {Resolve(ret'.path)} ELSE fs
    /\ UNCHANGED <<env, memo, gitVars>>

CallConfigDir ==
    /\ op' = "config_dir"
    /\ ret' = config_dir(env)
    /\ fresh' = TRUE
    /\ UNCHANGED <<env, fs, memo, gitVars>>

CallDataDir ==
    /\ op' = "data_dir"
    /\ ret' = data_dir(env)
    /\ fresh' = TRUE
    /\ UNCHANGED <<env, fs, memo, gitVars>>

\* the caller drops the returned value
Forget ==
    /\ op # "none"
    /\ op' = "none"
    /\ ret' = NoResult
    /\ fresh' = FALSE
    /\ UNCHANGED <<env, fs, memo, gitVars>>

NoMemo == [op |-> "none", env |-> [k \in VarNames |-> Unset], ret |-> NoResult]

InitDirs ==
    /\ env = [k \in VarNames |-> Unset]
    /\ fs = {}
    /\ op = "none"
    /\ ret = NoResult
    /\ fresh = FALSE
    /\ memo = NoMemo

InitGit ==
    /\ path = <<>>
    /\ gitdir = <<>>
    /\ pc = "idle"
    /\ found = [some |-> FALSE, dir |-> <<>>]

Init == InitDirs /\ InitGit

Idle == op = "none"

Next ==
    \/ Idle /\ \E k \in VarNames, v \in Values : SetVar(k, v)
    \/ Idle /\ \E k \in VarNames : RemoveVar(k)
    \/ Idle /\ Cardinality(fs) < MaxDirs
            /\ \E v \in {x \in Values : IsUnicode(x)} : CreateDir(v)
    \/ Idle /\ \E d \in fs : RemoveDir(d)
    \/ CallHomeDir
    \/ CallConfigDir
    \/ CallDataDir
    \/ Forget

Spec == Init /\ [][Next]_vars

(***************************************************************************)
(* Call sequences: the earlier call memo is compared with later ones.      *)
(***************************************************************************)
\* an observer notes the call just made, once; the noted call is from
\* then on an earlier call
Remember ==
    /\ fresh
    /\ memo.op = "none"
    /\ memo' = [op |-> op, env |-> env, ret |-> ret]
    /\ fresh' = FALSE
    /\ UNCHANGED <<env, fs, op, ret, gitVars>>

NextSeq ==
    \/ \E k \in VarNames, v \in SeqValues : SetVar(k, v)
    \/ \E k \in VarNames : RemoveVar(k)
    \/ CallHomeDir
    \/ CallConfigDir
    \/ CallDataDir
    \/ Remember

SpecSeq == Init /\ [][NextSeq]_vars

(***************************************************************************)
(* Git-repository detection.                                               *)
(***************************************************************************)
Some(p) == [some |-> TRUE, dir |-> p]
None == [some |-> FALSE, dir |-> <<>>]

has_git_dir(p) == Exists(Push(p, <<".git">>))

\* let mut gitdir = PathBuf::from(path)
CallInGitRepo(p) ==
    /\ pc = "idle"
    /\ path' = p
    /\ gitdir' = p
    /\ pc' = "loop"
    /\ UNCHANGED <<fs, found, dirVars>>

\* the loop condition holds: gitdir.pop()
LoopStep ==
    /\ pc = "loop"
    /\ HasParent(gitdir) /\ ~has_git_dir(gitdir)
    /\ gitdir' = Pop(gitdir)
    /\ UNCHANGED <<fs, path, pc, found, dirVars>>

\* the loop condition fails: Some(gitdir) with a parent, None without
LoopExit ==
    /\ pc = "loop"
    /\ ~(HasParent(gitdir) /\ ~has_git_dir(gitdir))
    /\ found' = IF HasParent(gitdir) THEN Some(gitdir) ELSE None
    /\ pc' = "done"
    /\ UNCHANGED <<fs, path, gitdir, dirVars>>

GitReturn ==
    /\ pc = "done"
    /\ pc' = "idle"
    /\ UNCHANGED <<fs, path, gitdir, found, dirVars>>

NextGit ==
    \/ pc = "idle" /\ Cardinality(fs) < MaxGit
          /\ \E d \in GitPaths : CreateDir(Push(d, <<".git">>))
    \/ pc = "idle" /\ \E d \in fs : RemoveDir(d)
    \/ \E p \in GitPaths : CallInGitRepo(p)
    \/ LoopStep
    \/ LoopExit
    \/ GitReturn

SpecGit == Init /\ [][NextGit]_vars

(***************************************************************************)
(* The claims.                                                             *)
(***************************************************************************)
\* the path p is the path base joined with the names in segs: the same
\* rootedness and the components of base followed by segs
IsJoined(p, base, segs) ==
    /\ IsAbsolute(p) = IsAbsolute(base)
    /\ Components(p) = Components(base) \o segs

Called(o) == fresh /\ op = o

\* C1: whenever XDG_CONFIG_HOME is set to V, whatever HOME is and whatever
\* is on disk, config_dir() returns V joined with "atuin".
C1_ConfigDirOverride ==
    (Called("config_dir") /\ env["XDG_CONFIG_HOME"].set)
        => /\ ret.kind = "ok"
           /\ IsJoined(ret.path, env["XDG_CONFIG_HOME"].val, <<<<"atuin">>>>)

\* C2: whenever XDG_DATA_HOME is set to V, whatever HOME is and whatever is
\* on disk, data_dir() returns V joined with "atuin".
C2_DataDirOverride ==
    (Called("data_dir") /\ env["XDG_DATA_HOME"].set)
        => /\ ret.kind = "ok"
           /\ IsJoined(ret.path, env["XDG_DATA_HOME"].val, <<<<"atuin">>>>)

\* C3: with XDG_CONFIG_HOME unset and HOME set to H, config_dir() returns
\* H/.config/atuin, for every H.
C3_ConfigDirFallback ==
    (Called("config_dir") /\ ~env["XDG_CONFIG_HOME"].set /\ env["HOME"].set)
        => /\ ret.kind = "ok"
           /\ IsJoined(ret.path, env["HOME"].val, <<<<".config">>, <<"atuin">>>>)

\* C4: with XDG_DATA_HOME unset and HOME set to H, data_dir() returns
\* H/.local/share/atuin, for every H.
C4_DataDirFallback ==
    (Called("data_dir") /\ ~env["XDG_DATA_HOME"].set /\ env["HOME"].set)
        => /\ ret.kind = "ok"
           /\ IsJoined(ret.path, env["HOME"].val,
                       <<<<".local">>, <<"share">>, <<"atuin">>>>)

\* C5: home_dir() called with HOME not set ends in the panic; it returns no
\* path, neither an empty one nor a default.
C5_HomeDirMissingPanics ==
    (Called("home_dir") /\ ~env["HOME"].set) => ret = Panic

C5_Witness == Called("home_dir") /\ ~env["HOME"].set /\ ret = Panic

Override(o) == IF o = "config_dir" THEN "XDG_CONFIG_HOME" ELSE "XDG_DATA_HOME"

\* C6: config_dir() (data_dir()) fails exactly when its override variable is
\* unset and HOME is absent; in every other state it returns a path.
C6_FailsExactlyWhen ==
    \A o \in {"config_dir", "data_dir"} :
        Called(o) =>
            /\ (ret = Panic) <=> (~env[Override(o)].set /\ ~env["HOME"].set)
            /\ (ret # Panic) => ret.kind = "ok"

\* C7: home_dir() returns a non-empty path or fails, also with HOME set to
\* the empty string; the fallback of config_dir() and data_dir() is never
\* built on an empty home.
C7_HomeNonEmpty ==
    /\ Called("home_dir") => (ret = Panic \/ (ret.kind = "ok" /\ ret.path # <<>>))
    /\ \A o \in {"config_dir", "data_dir"} :
           (Called(o) /\ ~env[Override(o)].set /\ ret.kind = "ok")
               => env["HOME"].val # <<>>

C9_NoSideEffects == [][fresh' => (env' = env /\ fs' = fs)]_vars

C9_Witness ==
    /\ fresh /\ op = "config_dir" /\ ret.kind = "ok"
    /\ Resolve(ret.path) \notin fs /\ fs # {}

\* the nearest of p and its ancestors, the last one (the root, or the empty
\* path of a relative p) included, that holds a ".git" entry
RECURSIVE NearestGit(_)
NearestGit(p) ==
    IF has_git_dir(p) THEN Some(p)
    ELSE IF HasParent(p) THEN NearestGit(Parent(p))
    ELSE None

\* C10: in_git_repo(path) returns the nearest directory among path and all
\* its ancestors up to and including the filesystem root that holds a ".git"
\* entry, and None exactly when none of them does (stated for the absolute
\* paths, whose last ancestor is the filesystem root).
C10_InGitRepoNearest ==
    (pc = "done" /\ IsAbsolute(path)) => found = NearestGit(path)

====
